---------------------------- MODULE Spec2Model ----------------------------
(***************************************************************************)
(* Model of find_aka_cve.py: a scanner that walks a Metasploit modules/    *)
(* tree, extracts (CVE, AKA) pairs from each *.rb file with regular        *)
(* expressions, and prints them as CSV or as a TypeScript map.             *)
(*                                                                         *)
(* A Python str is a sequence of one-character strings.  The regular       *)
(* expressions of the source are modelled by matchers over such sequences  *)
(* that return what Python's backtracking matcher returns.                 *)
(***************************************************************************)
EXTENDS Integers, Sequences, FiniteSets, TLC

VARIABLES pc, root, ts, dedup, tree, results, stdout, stderr, status, arg, ret

vars == <<pc, root, ts, dedup, tree, results, stdout, stderr, status, arg, ret>>

(***************************************************************************)
(* Characters and the str methods the source uses.                         *)
(***************************************************************************)
Lowers == <<"a","b","c","d","e","f","g","h","i","j","k","l","m",
            "n","o","p","q","r","s","t","u","v","w","x","y","z">>

Uppers == <<"A","B","C","D","E","F","G","H","I","J","K","L","M",
            "N","O","P","Q","R","S","T","U","V","W","X","Y","Z">>

LowerSet == {Lowers[i] : i \in DOMAIN Lowers}

UpperSet == {Uppers[i] : i \in DOMAIN Uppers}

Digits == {"0","1","2","3","4","5","6","7","8","9"}

\* \s of the re module, within the modelled alphabet
Space == {" ", "\t", "\n", "\r"}

Quotes == {"'", "\""}

UpTab == [c \in LowerSet |-> Uppers[CHOOSE i \in DOMAIN Lowers : Lowers[i] = c]]

LoTab == [c \in UpperSet |-> Lowers[CHOOSE i \in DOMAIN Uppers : Uppers[i] = c]]

UpperChar(c) == IF c \in LowerSet THEN UpTab[c] ELSE c

LowerChar(c) == IF c \in UpperSet THEN LoTab[c] ELSE c

\* str.upper()
upper(s) == [i \in DOMAIN s |-> UpperChar(s[i])]

\* str.lower()
lower(s) == [i \in DOMAIN s |-> LowerChar(s[i])]

\* s[i:] with a 1-based i
From(s, i) == SubSeq(s, i, Len(s))

RECURSIVE LStripOf(_, _)
LStripOf(s, cs) == IF s # <<>> /\ Head(s) \in cs THEN LStripOf(Tail(s), cs) ELSE s

RECURSIVE RStripOf(_, _)
RStripOf(s, cs) ==
    IF s # <<>> /\ s[Len(s)] \in cs THEN RStripOf(SubSeq(s, 1, Len(s) - 1), cs) ELSE s

\* str.strip()
strip(s) == RStripOf(LStripOf(s, Space), Space)

\* str.rstrip(chars)
rstrip(s, cs) == RStripOf(s, cs)

\* the index of the first character at or after i that is not in cs
\* (Len(s) + 1 when there is none): a greedy cs* started at i ends there
RECURSIVE SkipOver(_, _, _)
SkipOver(s, i, cs) ==
    IF i <= Len(s) /\ s[i] \in cs THEN SkipOver(s, i + 1, cs) ELSE i

\* the least element of a set of indices, 0 for the empty set
FirstIn(S) == IF S = {} THEN 0 ELSE CHOOSE k \in S : \A j \in S : k <= j

\* str.find(c, i) for a one-character c: the first index >= i holding c, 0 if none
FindChar(s, c, i) == FirstIn({k \in i..Len(s) : s[k] = c})

\* str.find('//'): the first index i with s[i] = s[i+1] = "/", 0 if none
FindSlashes(s, i) == FirstIn({k \in i..(Len(s) - 1) : s[k] = "/" /\ s[k + 1] = "/"})

AllIn(s, i, j, cs) == \A k \in i..j : s[k] \in cs

\* the word w, compared case-insensitively, stands at s[i..]
WordAt(s, i, w) ==
    /\ i + Len(w) - 1 <= Len(s)
    /\ \A k \in 1..Len(w) : UpperChar(s[i + k - 1]) = w[k]

\* re.sub(r'\s+', '', s)
RECURSIVE RemoveSpace(_)
RemoveSpace(s) ==
    IF s = <<>> THEN <<>>
    ELSE IF Head(s) \in Space THEN RemoveSpace(Tail(s))
    ELSE <<Head(s)>> \o RemoveSpace(Tail(s))

CVE == <<"C", "V", "E">>

AKA == <<"A", "K", "A">>

CveSep == {"-", "_"} \cup Space

\* f"CVE-{year}-{seq}"
CveId(year, seq) == CVE \o <<"-">> \o year \o <<"-">> \o seq

(***************************************************************************)
(* normalize_cve                                                           *)
(***************************************************************************)
\* re.sub(r'^\s*CVE[-\s_]*', '', s, flags=re.IGNORECASE)
StripCvePrefix(s) ==
    LET i == SkipOver(s, 1, Space)
    IN  IF WordAt(s, i, CVE) THEN From(s, SkipOver(s, i + 3, CveSep)) ELSE s

\* re.match(r'(\d{4})(\d{4,7})$', s)
MatchesJoined(s) ==
    /\ Len(s) \in 8..11
    /\ AllIn(s, 1, Len(s), Digits)

\* re.match(r'(\d{4})[-_]?([0-9]{4,7})$', s), the separator being present
MatchesDashed(s) ==
    /\ Len(s) \in 9..12
    /\ AllIn(s, 1, 4, Digits)
    /\ s[5] \in {"-", "_"}
    /\ AllIn(s, 6, Len(s), Digits)

\* variant: the branch for the joined spelling YYYYNNNN is missing
normalize_cve_no_joined(raw) ==
    LET s == RemoveSpace(StripCvePrefix(strip(raw)))
    IN  IF MatchesDashed(s) THEN CveId(SubSeq(s, 1, 4), From(s, 6))
        ELSE upper(s)

normalize_cve(raw) ==
    LET s == RemoveSpace(StripCvePrefix(strip(raw)))
    IN  IF MatchesJoined(s) THEN CveId(SubSeq(s, 1, 4), From(s, 5))
        ELSE IF MatchesDashed(s) THEN CveId(SubSeq(s, 1, 4), From(s, 6))
        ELSE upper(s)

(***************************************************************************)
(* is_aka_filtered                                                         *)
(***************************************************************************)
AlNum == LowerSet \cup UpperSet \cup Digits

\* -\d{4}-\d{2,}$ at a[i..]
VendorTail(a, i) ==
    /\ i + 7 <= Len(a)
    /\ a[i] = "-"
    /\ AllIn(a, i + 1, i + 4, Digits)
    /\ a[i + 5] = "-"
    /\ AllIn(a, i + 6, Len(a), Digits)

\* [A-Z0-9]+(?:-[A-Z0-9]+)*-\d{4}-\d{2,}$ at a[i..]
RECURSIVE VendorGroups(_, _)
VendorGroups(a, i) ==
    LET j == SkipOver(a, i, AlNum)
    IN  /\ j > i
        /\ \/ VendorTail(a, j)
           \/ /\ j <= Len(a)
              /\ a[j] = "-"
              /\ VendorGroups(a, j + 1)

\* RE_VENDOR_ADVISORY.match(a)
RE_VENDOR_ADVISORY(a) == VendorGroups(a, 1)

\* a.lower().endswith('.c')
EndsWithDotC(a) ==
    /\ Len(a) >= 2
    /\ a[Len(a) - 1] = "."
    /\ LowerChar(a[Len(a)]) = "c"

is_aka_filtered(aka) ==
    IF aka = <<>> THEN TRUE
    ELSE LET a == strip(aka)
         IN  IF EndsWithDotC(a) THEN TRUE
             ELSE IF RE_VENDOR_ADVISORY(a) THEN TRUE
             ELSE FALSE

(***************************************************************************)
(* The regular expressions of extract_from_text.  A match is a record      *)
(* whose field end is the 1-based index of the first character after the   *)
(* match (m.end() of a 0-based str); NoMatch has end = 0.                  *)
(***************************************************************************)
NoMatch == [end |-> 0]

\* the lazy (.*?) of RE_REF followed by \3\s*\]: the first index e >= i that
\* holds the closing quote q with "]" after optional white space, 0 if none
RefClose(t, q, i) ==
    FirstIn({e \in i..Len(t) :
                /\ t[e] = q
                /\ LET k == SkipOver(t, e + 1, Space) IN k <= Len(t) /\ t[k] = "]"})

\* RE_REF matched at position i:  \[\s*(['"])(AKA|CVE)\1\s*,\s*(['"])(.*?)\3\s*\]
RE_REF_at(t, i) ==
    IF i > Len(t) \/ t[i] # "[" THEN NoMatch
    ELSE LET j == SkipOver(t, i + 1, Space) IN
    IF ~ /\ j + 4 <= Len(t)
         /\ t[j] \in Quotes
         /\ WordAt(t, j + 1, AKA) \/ WordAt(t, j + 1, CVE)
         /\ t[j + 4] = t[j]
    THEN NoMatch
    ELSE LET k == SkipOver(t, j + 5, Space) IN
    IF ~ (k <= Len(t) /\ t[k] = ",") THEN NoMatch
    ELSE LET l == SkipOver(t, k + 1, Space) IN
    IF ~ (l <= Len(t) /\ t[l] \in Quotes) THEN NoMatch
    ELSE LET e == RefClose(t, t[l], l + 1) IN
    IF e = 0 THEN NoMatch
    ELSE [end  |-> SkipOver(t, e + 1, Space) + 1,
          kind |-> upper(SubSeq(t, j + 1, j + 3)),
          val  |-> SubSeq(t, l + 1, e - 1)]

\* RE_REF.finditer(text): the leftmost match at or after position p, then the
\* matches after its end
RECURSIVE RE_REF(_, _)
RE_REF(t, p) ==
    LET i == FirstIn({k \in p..Len(t) : RE_REF_at(t, k).end # 0})
    IN  IF i = 0 THEN <<>>
        ELSE <<RE_REF_at(t, i)>> \o RE_REF(t, RE_REF_at(t, i).end)

\* aka_block_re matched at position i:  ['"]AKA['"]\s*(?:=>|:)\s*\[(.*?)\]
aka_block_re_at(t, i) ==
    IF ~ /\ i + 4 <= Len(t)
         /\ t[i] \in Quotes
         /\ WordAt(t, i + 1, AKA)
         /\ t[i + 4] \in Quotes
    THEN NoMatch
    ELSE LET j == SkipOver(t, i + 5, Space)
             k == IF j + 1 <= Len(t) /\ t[j] = "=" /\ t[j + 1] = ">" THEN j + 2
                  ELSE IF j <= Len(t) /\ t[j] = ":" THEN j + 1
                  ELSE 0
         IN
    IF k = 0 THEN NoMatch
    ELSE LET b == SkipOver(t, k, Space) IN
    IF ~ (b <= Len(t) /\ t[b] = "[") THEN NoMatch
    ELSE LET e == FindChar(t, "]", b + 1) IN
    IF e = 0 THEN NoMatch
    ELSE [end |-> e + 1, block |-> SubSeq(t, b + 1, e - 1)]

\* aka_block_re.finditer(text)
RECURSIVE aka_block_re(_, _)
aka_block_re(t, p) ==
    LET i == FirstIn({k \in p..Len(t) : aka_block_re_at(t, k).end # 0})
    IN  IF i = 0 THEN <<>>
        ELSE <<aka_block_re_at(t, i)>> \o aka_block_re(t, aka_block_re_at(t, i).end)

\* the first index >= i that holds a quote, 0 if none
FindQuote(s, i) == FirstIn({k \in i..Len(s) : s[k] \in Quotes})

\* aka_string_re matched at position i:  ['"]([^'"]+)['"]
aka_string_re_at(b, i) ==
    IF i > Len(b) \/ b[i] \notin Quotes THEN NoMatch
    ELSE LET e == FindQuote(b, i + 1)
         IN  IF e > i + 1 THEN [end |-> e + 1, str |-> SubSeq(b, i + 1, e - 1)]
             ELSE NoMatch

\* aka_string_re.findall(block)
RECURSIVE aka_string_re(_, _)
aka_string_re(b, p) ==
    LET i == FirstIn({k \in p..Len(b) : aka_string_re_at(b, k).end # 0})
    IN  IF i = 0 THEN <<>>
        ELSE <<aka_string_re_at(b, i).str>> \o aka_string_re(b, aka_string_re_at(b, i).end)

\* RE_CVE_GENERIC matched at position i:  CVE[-\s_]*?(\d{4})[-\s_]?([0-9]{4,7})
RE_CVE_GENERIC_at(t, i) ==
    IF ~ WordAt(t, i, CVE) THEN NoMatch
    ELSE LET y == SkipOver(t, i + 3, CveSep) IN
    IF ~ (y + 3 <= Len(t) /\ AllIn(t, y, y + 3, Digits)) THEN NoMatch
    ELSE LET n    == IF y + 4 <= Len(t) /\ t[y + 4] \in CveSep THEN y + 5 ELSE y + 4
             e    == SkipOver(t, n, Digits)
             stop == IF e - n > 7 THEN n + 7 ELSE e
         IN
    IF stop - n < 4 THEN NoMatch
    ELSE [end |-> stop, year |-> SubSeq(t, y, y + 3), seq |-> SubSeq(t, n, stop - 1)]

\* RE_CVE_GENERIC.finditer(text)
RECURSIVE RE_CVE_GENERIC(_, _)
RE_CVE_GENERIC(t, p) ==
    LET i == FirstIn({k \in p..Len(t) : RE_CVE_GENERIC_at(t, k).end # 0})
    IN  IF i = 0 THEN <<>>
        ELSE <<RE_CVE_GENERIC_at(t, i)>> \o RE_CVE_GENERIC(t, RE_CVE_GENERIC_at(t, i).end)

(***************************************************************************)
(* extract_from_text                                                       *)
(***************************************************************************)
\* text[m.end():line_end_idx], the rest of the line after a match
rest_of_line(t, p) ==
    LET line_end_idx == FindChar(t, "\n", p)
    IN  IF line_end_idx = 0 THEN From(t, p) ELSE SubSeq(t, p, line_end_idx - 1)

\* the name salvaged from the comment on the rest of the line; <<>> when the
\* line has no comment or the name is empty (nothing is appended then)
comment_name(rest) ==
    LET hash_idx  == FindChar(rest, "#", 1)
        slash_idx == FindSlashes(rest, 1)
    IN  IF hash_idx = 0 /\ slash_idx = 0 THEN <<>>
        ELSE LET comment == strip(IF hash_idx # 0 THEN From(rest, hash_idx + 1)
                                  ELSE From(rest, slash_idx + 2))
                 dash    == FindChar(comment, "-", 1)
                 name    == IF dash # 0 THEN strip(SubSeq(comment, 1, dash - 1))
                            ELSE comment
             IN  rstrip(name, {" ", ",", ";", ":"})

\* what one RE_REF match appends to akas
ref_aka(t, m) ==
    IF m.kind = AKA THEN <<strip(m.val)>>
    ELSE LET name == comment_name(rest_of_line(t, m.end))
         IN  IF name # <<>> THEN <<name>> ELSE <<>>

\* what one RE_REF match appends to cves
ref_cve(m) == IF m.kind = CVE THEN <<normalize_cve(strip(m.val))>> ELSE <<>>

RECURSIVE Flatten(_)
Flatten(ss) == IF ss = <<>> THEN <<>> ELSE Head(ss) \o Flatten(Tail(ss))

InSeq(x, s) == \E i \in DOMAIN s : s[i] = x

\* step 2: the non-empty stripped strings of every AKA block, in order
block_akas(t) ==
    LET blocks  == aka_block_re(t, 1)
        strs(b) == LET f == aka_string_re(b, 1)
                   IN  Flatten([i \in DOMAIN f |->
                           IF strip(f[i]) # <<>> THEN <<strip(f[i])>> ELSE <<>>])
    IN  Flatten([i \in DOMAIN blocks |-> strs(blocks[i].block)])

\* variant: the candidates grouped by form, the names salvaged from comments last
akas_of_by_form(t) ==
    LET refs == RE_REF(t, 1)
    IN  Flatten([i \in DOMAIN refs |-> IF refs[i].kind = AKA THEN ref_aka(t, refs[i]) ELSE <<>>])
            \o block_akas(t)
            \o Flatten([i \in DOMAIN refs |-> IF refs[i].kind = CVE THEN ref_aka(t, refs[i]) ELSE <<>>])

\* akas after steps 1 and 2
akas_of(t) ==
    LET refs == RE_REF(t, 1)
    IN  Flatten([i \in DOMAIN refs |-> ref_aka(t, refs[i])]) \o block_akas(t)

\* variant: cand is compared with the generic tokens only, not with the literals
RECURSIVE add_generic_within_form(_, _)
add_generic_within_form(cves, ms) ==
    IF ms = <<>> THEN cves
    ELSE LET cand == CveId(ms[Len(ms)].year, ms[Len(ms)].seq)
             rest == SubSeq(ms, 1, Len(ms) - 1)
         IN  IF \E i \in DOMAIN rest : CveId(rest[i].year, rest[i].seq) = cand
             THEN add_generic_within_form(cves, rest)
             ELSE Append(add_generic_within_form(cves, rest), cand)

\* step 3: cand is appended to cves unless cves holds it already
RECURSIVE add_generic(_, _)
add_generic(cves, ms) ==
    IF ms = <<>> THEN cves
    ELSE LET cand == CveId(Head(ms).year, Head(ms).seq)
         IN  add_generic(IF InSeq(cand, cves) THEN cves ELSE Append(cves, cand), Tail(ms))

\* cves after steps 1 and 3
cves_of(t) ==
    LET refs == RE_REF(t, 1)
    IN  add_generic(Flatten([i \in DOMAIN refs |-> ref_cve(refs[i])]), RE_CVE_GENERIC(t, 1))

\* variant: the loop has no break, the last AKA that is not filtered wins
RECURSIVE aka_final_last(_)
aka_final_last(akas) ==
    IF akas = <<>> THEN <<>>
    ELSE IF ~ is_aka_filtered(akas[Len(akas)]) THEN akas[Len(akas)]
    ELSE aka_final_last(SubSeq(akas, 1, Len(akas) - 1))

\* the first AKA that is not filtered; <<>> stands for None
RECURSIVE aka_final(_)
aka_final(akas) ==
    IF akas = <<>> THEN <<>>
    ELSE IF ~ is_aka_filtered(Head(akas)) THEN Head(akas)
    ELSE aka_final(Tail(akas))

\* the rows: every CVE paired with the AKA
rows_of(cves, aka) == [i \in DOMAIN cves |-> <<cves[i], aka>>]

\* variant: the two early returns are missing
extract_from_text_unguarded(text) == rows_of(cves_of(text), aka_final(akas_of(text)))

extract_from_text(text) ==
    LET akas == akas_of(text)
        cves == cves_of(text)
    IN  IF akas = <<>> THEN <<>>
        ELSE IF aka_final(akas) = <<>> THEN <<>>
        ELSE rows_of(cves, aka_final(akas))

(***************************************************************************)
(* scan_modules, make_ts_map and the output of main                        *)
(***************************************************************************)
\* str(path) of the i-th path that root.rglob("*.rb") yields
PathOf(i) == <<"m", "o", "d", "u", "l", "e", "s", "/", ToString(i), ".", "r", "b">>

\* what one iteration of the loop of scan_modules appends to results: nothing
\* when read_text raised, else one triple per pair of the file
file_results(i, f) ==
    IF ~ f.ok THEN <<>>
    ELSE LET pairs == extract_from_text(f.text)
         IN  [k \in DOMAIN pairs |-> <<PathOf(i), pairs[k][1], pairs[k][2]>>]

\* aka.replace("'", "\\'")
RECURSIVE escape_quotes(_)
escape_quotes(s) ==
    IF s = <<>> THEN <<>>
    ELSE (IF Head(s) = "'" THEN <<"\\", "'">> ELSE <<Head(s)>>) \o escape_quotes(Tail(s))

\* f"  '{cve}': '{seen[cve]}',"
ts_entry(cve, aka) ==
    <<" ", " ", "'">> \o cve \o <<"'", ":", " ", "'">> \o aka \o <<"'", ",">>

ts_comment ==
    <<"/","/"," ","g","e","n","e","r","a","t","e","d"," ","f","r","o","m"," ",
      "r","a","p","i","d","7","/","m","e","t","a","s","p","l","o","i","t","-",
      "f","r","a","m","e","w","o","r","k"," ","m","o","d","u","l","e","s">>

ts_open ==
    <<"e","x","p","o","r","t"," ","c","o","n","s","t"," ","c","v","e","T","o",
      "N","a","m","e","M","a","p",":"," ","R","e","c","o","r","d","<","s","t",
      "r","i","n","g",",","s","t","r","i","n","g",">"," ","="," ","{">>

ts_close == <<"}", ";">>

\* "\n".join(lines)
RECURSIVE join_lines(_)
join_lines(lines) ==
    IF lines = <<>> THEN <<>>
    ELSE IF Len(lines) = 1 THEN lines[1]
    ELSE lines[1] \o <<"\n">> \o join_lines(Tail(lines))

\* variant: seen is never consulted, every triple with a CVE gets an entry
RECURSIVE ts_entries_unseen(_, _)
ts_entries_unseen(pairs, seen) ==
    IF pairs = <<>> THEN <<>>
    ELSE IF Head(pairs)[2] # <<>>
         THEN <<ts_entry(Head(pairs)[2], escape_quotes(Head(pairs)[3]))>>
                  \o ts_entries_unseen(Tail(pairs), seen)
         ELSE ts_entries_unseen(Tail(pairs), seen)

\* the loop of make_ts_map: seen holds the CVEs that have an entry
RECURSIVE ts_entries(_, _)
ts_entries(pairs, seen) ==
    IF pairs = <<>> THEN <<>>
    ELSE LET cve == Head(pairs)[2]
             aka == Head(pairs)[3]
         IN  IF cve # <<>> /\ cve \notin seen
             THEN <<ts_entry(cve, escape_quotes(aka))>>
                      \o ts_entries(Tail(pairs), seen \cup {cve})
             ELSE ts_entries(Tail(pairs), seen)

make_ts_map(pairs) ==
    join_lines(<<ts_comment, ts_open>> \o ts_entries(pairs, {}) \o <<ts_close>>)

\* the data rows of the CSV branch with --dedup: seen holds the CVEs written
RECURSIVE dedup_rows(_, _)
dedup_rows(rs, seen) ==
    IF rs = <<>> THEN <<>>
    ELSE IF Head(rs)[2] \in seen THEN dedup_rows(Tail(rs), seen)
    ELSE <<Head(rs)>> \o dedup_rows(Tail(rs), seen \cup {Head(rs)[2]})

\* variant: the dedup flag is ignored
csv_rows_all(rs, flag) == rs

\* the data rows of the CSV branch
csv_rows(rs, flag) == IF flag THEN dedup_rows(rs, {}) ELSE rs

\* out_csv.writerow(row), print(text): one write to standard output
writerow(row) == [op |-> "writerow", row |-> row]

print(text) == [op |-> "print", text |-> text]

csv_header == <<<<"f", "i", "l", "e">>, <<"c", "v", "e">>, <<"a", "k", "a">>>>

\* variant: the check for an empty result list is missing
main_output_unchecked(rs, tsFlag, dedupFlag) ==
    IF tsFlag THEN <<print(make_ts_map(rs))>>
    ELSE LET rows == csv_rows(rs, dedupFlag)
         IN  <<writerow(csv_header)>> \o [i \in DOMAIN rows |-> writerow(rows[i])]

\* everything main writes to standard output once the scan is over
main_output(rs, tsFlag, dedupFlag) ==
    IF rs = <<>> THEN <<>>
    ELSE IF tsFlag THEN <<print(make_ts_map(rs))>>
    ELSE LET rows == csv_rows(rs, dedupFlag)
         IN  <<writerow(csv_header)>> \o [i \in DOMAIN rows |-> writerow(rows[i])]

(***************************************************************************)
(* Inputs: file texts made of lines of the shapes the scanner looks for.   *)
(***************************************************************************)
MaxLines == 3

MaxFiles == 3

\* ['kind', 'val']
Lit(kind, val) == <<"[", "'">> \o kind \o <<"'", ",", " ", "'">> \o val \o <<"'", "]">>

Lines ==
    << Lit(AKA, <<"H", "b">>),
       Lit(AKA, <<"x", ".", "c">>),
       Lit(CVE, <<"2", "0", "1", "4", "-", "0", "1", "6", "0">>),
       Lit(CVE, <<"C", "V", "E", "-", "2", "0", "1", "7", "-", "0", "1", "4", "3">>)
           \o <<",", " ", "#", " ", "E", "t", " ", "-", " ", "t">>,
       <<"'", "A", "K", "A", "'", " ", "=", ">", " ", "[", "'", "S", "A", "-", "1", "-",
         "2", "0", "1", "8", "-", "0", "2", "'", ",", " ", "'", "R", "n", "'", "]">>,
       <<"#", " ", "C", "V", "E", "-", "2", "0", "1", "4", "-", "0", "1", "6", "0">>,
       <<"c", "v", "e", "_", "2", "0", "1", "9", "_", "0", "7", "0", "8">>,
       Lit(CVE, <<>>),
       <<"[", "\"", "A", "K", "A", "\"", ",", " ", "\"", "O", "'", "N", "\"", "]">>,
       Lit(CVE, <<"2", "0", "1", "4", "0", "1", "6", "0">>)
           \o <<" ", "/", "/", " ", "n", ".", "c">> >>

\* the text whose lines are Lines[ls[1]], Lines[ls[2]], ...
TextOf(ls) == join_lines([i \in DOMAIN ls |-> Lines[ls[i]]])

LineSeqs == UNION {[1..n -> DOMAIN Lines] : n \in 0..MaxLines}

Texts == {TextOf(ls) : ls \in LineSeqs}

\* the module files of the scanned tree
Modules ==
    { TextOf(<<>>),
      TextOf(<<1, 3>>),
      TextOf(<<3, 5>>),
      TextOf(<<4>>),
      TextOf(<<3, 7>>),
      TextOf(<<2, 7, 10>>),
      TextOf(<<8, 9, 3>>),
      TextOf(<<2, 1, 5, 3, 4, 6>>) }

\* what path.read_text() gives: a text, or an exception
ReadOutcomes == {[ok |-> TRUE, text |-> t] : t \in Modules} \cup {[ok |-> FALSE]}

(***************************************************************************)
(* main                                                                    *)
(***************************************************************************)
Init ==
    /\ pc = "main"
    /\ root \in {"dir", "file", "missing"}
    /\ ts \in BOOLEAN
    /\ dedup \in BOOLEAN
    /\ tree = <<>>
    /\ results = <<>>
    /\ stdout = <<>>
    /\ stderr = <<>>
    /\ status = -1
    /\ arg = <<>>
    /\ ret = <<>>

\* if not root.exists() or not root.is_dir(): print the error, return 2
CheckRoot ==
    /\ pc = "main"
    /\ IF root # "dir"
       THEN /\ stderr' = <<"ERROR: root is not a directory">>
            /\ status' = 2
            /\ pc' = "exit"
       ELSE /\ pc' = "scan"
            /\ UNCHANGED <<stderr, status>>
    /\ UNCHANGED <<root, ts, dedup, tree, results, stdout, arg, ret>>

\* variant: the exception of read_text is not caught and ends the run
ScanFile_uncaught ==
    /\ pc = "scan"
    /\ Len(tree) < MaxFiles
    /\ \E f \in ReadOutcomes :
          /\ tree' = Append(tree, f)
          /\ results' = results \o file_results(Len(tree) + 1, f)
          /\ IF f.ok
             THEN UNCHANGED <<pc, stderr, status>>
             ELSE /\ pc' = "exit"
                  /\ stderr' = <<"Traceback">>
                  /\ status' = 1
    /\ UNCHANGED <<root, ts, dedup, stdout, arg, ret>>

\* one iteration of the loop of scan_modules: the walk yields the next path,
\* the file is read and its pairs are appended
ScanFile ==
    /\ pc = "scan"
    /\ Len(tree) < MaxFiles
    /\ \E f \in ReadOutcomes :
          /\ tree' = Append(tree, f)
          /\ results' = results \o file_results(Len(tree) + 1, f)
    /\ UNCHANGED <<pc, root, ts, dedup, stdout, stderr, status, arg, ret>>

\* the walk is exhausted: scan_modules returns
ScanDone ==
    /\ pc = "scan"
    /\ pc' = "emit"
    /\ UNCHANGED <<root, ts, dedup, tree, results, stdout, stderr, status, arg, ret>>

\* the rest of main: nothing for no results, else the map or the CSV; return 0
Emit ==
    /\ pc = "emit"
    /\ stdout' = stdout \o main_output(results, ts, dedup)
    /\ status' = 0
    /\ pc' = "exit"
    /\ UNCHANGED <<root, ts, dedup, tree, results, stderr, arg, ret>>

Next == CheckRoot \/ ScanFile \/ ScanDone \/ Emit

Spec == Init /\ [][Next]_vars

(***************************************************************************)
(* The functions on their own: the argument is drawn from a bounded set    *)
(* and the call returns the result.                                        *)
(***************************************************************************)
Idle ==
    /\ root = "dir"
    /\ ts = FALSE
    /\ dedup = FALSE
    /\ tree = <<>>
    /\ results = <<>>
    /\ stdout = <<>>
    /\ stderr = <<>>
    /\ status = -1

Return(value) ==
    /\ pc = "call"
    /\ pc' = "return"
    /\ ret' = value
    /\ UNCHANGED <<root, ts, dedup, tree, results, stdout, stderr, status, arg>>

\* extract_from_text(text): the lists akas and cves it built, and the rows
InitExtract == Idle /\ pc = "call" /\ arg \in Texts /\ ret = <<>>

Extract ==
    Return([akas |-> akas_of(arg), cves |-> cves_of(arg), rows |-> extract_from_text(arg)])

SpecExtract == InitExtract /\ [][Extract]_vars

\* is_aka_filtered(aka), aka a concatenation of at most MaxPieces pieces
MaxPieces == 4

Pieces ==
    << <<" ">>, <<"\t">>, <<".", "c">>, <<".", "C">>, <<"x">>, <<"S", "a">>, <<"-">>,
       <<"-", "2", "0", "1", "8">>, <<"-", "0", "2">>, <<"-", "0">> >>

PieceSeqs == UNION {[1..n -> DOMAIN Pieces] : n \in 0..MaxPieces}

AkaInputs == {Flatten([i \in DOMAIN ps |-> Pieces[ps[i]]]) : ps \in PieceSeqs}

InitFilter == Idle /\ pc = "call" /\ arg \in AkaInputs /\ ret = <<>>

Filter == Return(is_aka_filtered(arg))

SpecFilter == InitFilter /\ [][Filter]_vars

\* normalize_cve(raw), raw a spelling of the year y and the sequence number n
Years == {<<"2", "0", "1", "8">>, <<"1", "9", "9", "9">>}

SeqDigits == {"0", "1"}

SeqNumbers == UNION {[1..n -> SeqDigits] : n \in 3..8}

Spellings(y, n) ==
    { y \o <<"-">> \o n,
      y \o n,
      CVE \o <<"-">> \o y \o <<"-">> \o n }

OtherSpellings(y, n) ==
    { y \o <<"_">> \o n,
      <<" ", "c", "v", "e", " ">> \o y \o <<" ">> \o n \o <<"\n">>,
      <<"c", "v", "e", "-">> \o y \o <<"-", "x">> \o n,
      y \o <<"-", "-">> \o n,
      <<"m", "s">> \o n \o <<"-", " ", "x">>,
      <<>> }

InitNormalize ==
    /\ Idle
    /\ pc = "call"
    /\ \E y \in Years, n \in SeqNumbers :
          \E raw \in Spellings(y, n) \cup OtherSpellings(y, n) :
             arg = [y |-> y, n |-> n, raw |-> raw]
    /\ ret = <<>>

Normalize == Return(normalize_cve(arg.raw))

SpecNormalize == InitNormalize /\ [][Normalize]_vars

(***************************************************************************)
(* Properties.  The lists below are stated from the text, by form.         *)
(***************************************************************************)
\* the elements of s at the indices in I, in order
RestrictTo(s, I) ==
    [k \in 1..Cardinality(I) |-> s[CHOOSE i \in I : Cardinality({j \in I : j < i}) = k - 1]]

Elements(s) == {s[i] : i \in DOMAIN s}

\* the first element of akas that is not filtered, <<>> if there is none
FirstKept(akas) ==
    LET K == {k \in DOMAIN akas : ~ is_aka_filtered(akas[k])}
    IN  IF K = {} THEN <<>> ELSE akas[FirstIn(K)]

\* the values of the ['AKA', x] literals, in text order
LiteralAkas(t) ==
    LET refs == RE_REF(t, 1)
    IN  Flatten([i \in DOMAIN refs |-> IF refs[i].kind = AKA THEN <<strip(refs[i].val)>> ELSE <<>>])

\* the names salvaged from the comments after ['CVE', x] literals, in text order
CommentAkas(t) ==
    LET refs == RE_REF(t, 1)
        name(m) == comment_name(rest_of_line(t, m.end))
    IN  Flatten([i \in DOMAIN refs |->
            IF refs[i].kind = CVE /\ name(refs[i]) # <<>> THEN <<name(refs[i])>> ELSE <<>>])

\* the quoted strings of the key-to-array AKA blocks, in text order
KeyArrayAkas(t) == block_akas(t)

\* the literals and the salvaged names together, by position of their literal
RefAkas(t) ==
    LET refs == RE_REF(t, 1)
        name(m) == comment_name(rest_of_line(t, m.end))
    IN  Flatten([i \in DOMAIN refs |->
            IF refs[i].kind = AKA THEN <<strip(refs[i].val)>>
            ELSE IF name(refs[i]) # <<>> THEN <<name(refs[i])>> ELSE <<>>])

\* the ['CVE', x] literals normalised, in text order, duplicates kept
LiteralCves(t) ==
    LET refs == RE_REF(t, 1)
    IN  Flatten([i \in DOMAIN refs |->
            IF refs[i].kind = CVE THEN <<normalize_cve(strip(refs[i].val))>> ELSE <<>>])

\* the generic CVE tokens, in text order
GenericCves(t) ==
    LET ms == RE_CVE_GENERIC(t, 1)
    IN  [i \in DOMAIN ms |-> CveId(ms[i].year, ms[i].seq)]

Kept(akas) == {akas[k] : k \in {k \in DOMAIN akas : ~ is_aka_filtered(akas[k])}}

\* C9 as stated: the merged candidate list is the ['AKA', x] literals, then the
\* key-to-array strings, then the names salvaged from comments, and the alias of
\* the rows is the first candidate of that list that is not filtered.
C9_FormPriority ==
    pc = "return" =>
        LET claimed == LiteralAkas(arg) \o KeyArrayAkas(arg) \o CommentAkas(arg)
        IN  /\ ret.akas = claimed
            /\ \A i \in DOMAIN ret.rows : ret.rows[i][2] = FirstKept(claimed)

\* C9 amended: the merged candidate list is the ['AKA', x] literals and the names
\* salvaged from comments, interleaved in text order, followed by the
\* key-to-array strings; the alias of the rows is its first candidate that is not
\* filtered, so with a non-filtered salvaged name in the file the alias is the
\* first non-filtered candidate of the first group and a key-to-array string is
\* never preferred to it, wherever the key-to-array declaration stands.
C9_TextOrderThenKeyArray ==
    pc = "return" =>
        /\ ret.akas = RefAkas(arg) \o KeyArrayAkas(arg)
        /\ \A i \in DOMAIN ret.rows :
              /\ ret.rows[i][2] = FirstKept(ret.akas)
              /\ Kept(CommentAkas(arg)) # {} => ret.rows[i][2] = FirstKept(RefAkas(arg))

\* a file whose key-to-array declaration comes first and offers a non-filtered
\* alias, and whose rows carry the name salvaged from a later comment
C9_Witness ==
    /\ pc = "return"
    /\ ret.rows # <<>>
    /\ Kept(KeyArrayAkas(arg)) # {}
    /\ LiteralAkas(arg) = <<>>
    /\ aka_block_re(arg, 1)[1].end <= FirstIn({k \in DOMAIN arg : arg[k] = "#"})
    /\ ret.rows[1][2] \in Kept(CommentAkas(arg))
    /\ ret.rows[1][2] \notin Kept(KeyArrayAkas(arg))

\* the alias of the file, <<>> if no candidate survives
Survivor(t) == FirstKept(RefAkas(t) \o KeyArrayAkas(t))

\* the indices of the generic tokens that no earlier generic token equals
FirstGeneric(g) == {i \in DOMAIN g : \A j \in 1..(i - 1) : g[j] # g[i]}

\* C10 as stated: with a surviving alias the rows are one per entry of the CVE
\* list, which is the normalised ['CVE', x] literals followed by the generic
\* tokens, a generic token being dropped only when an earlier generic token
\* equals it.
C10_DedupWithinGenericForm ==
    pc = "return" /\ Survivor(arg) # <<>> =>
        LET g == GenericCves(arg)
        IN  ret.rows = rows_of(LiteralCves(arg) \o RestrictTo(g, FirstGeneric(g)), Survivor(arg))

\* C10 amended: with a surviving alias the rows are one per entry of the CVE
\* list, which is the normalised ['CVE', x] literals, in text order with
\* duplicates kept, followed by the generic tokens in text order, a generic
\* token being dropped when an earlier generic token or a ['CVE', x] literal
\* has the same value.
C10_DedupAgainstWholeList ==
    pc = "return" /\ Survivor(arg) # <<>> =>
        LET g    == GenericCves(arg)
            lits == LiteralCves(arg)
            keep == {i \in FirstGeneric(g) : g[i] \notin Elements(lits)}
        IN  ret.rows = rows_of(lits \o RestrictTo(g, keep), Survivor(arg))

\* a file with a surviving alias and a generic token that equals a literal:
\* the token yields no row of its own
C10_Witness ==
    /\ pc = "return"
    /\ Survivor(arg) # <<>>
    /\ \E i \in DOMAIN GenericCves(arg) : GenericCves(arg)[i] \in Elements(LiteralCves(arg))
    /\ \E i \in DOMAIN GenericCves(arg) : GenericCves(arg)[i] \notin Elements(LiteralCves(arg))
    /\ Len(ret.rows) = Len(LiteralCves(arg)) + 1

\* an alias of only white space (the empty alias included)
Blank(a) == \A i \in DOMAIN a : a[i] \in Space

\* the lowercase form of the alias ends with ".c"
LowerEndsDotC(a) == Len(a) >= 2 /\ SubSeq(lower(a), Len(a) - 1, Len(a)) = <<".", "c">>

\* the vendor-advisory shape: dash-joined groups of letters and digits, then a
\* dash, 4 digits, a dash and 2 or more digits
VendorShape(a) ==
    LET dashes == {i \in DOMAIN a : a[i] = "-"}
        d2     == CHOOSE i \in dashes : \A j \in dashes : j <= i
        d1     == CHOOSE i \in dashes \ {d2} : \A j \in dashes \ {d2} : j <= i
    IN  /\ Cardinality(dashes) >= 2
        /\ d2 - d1 = 5
        /\ \A i \in (d1 + 1)..(d2 - 1) : a[i] \in Digits
        /\ Len(a) - d2 >= 2
        /\ \A i \in (d2 + 1)..Len(a) : a[i] \in Digits
        /\ d1 > 1
        /\ \A i \in 1..(d1 - 1) : a[i] \in AlNum \cup {"-"}
        /\ a[1] # "-"
        /\ \A i \in 1..(d1 - 1) : a[i] = "-" => a[i + 1] # "-"

\* C6 as stated: is_aka_filtered is true for an empty or all-white-space alias,
\* for an alias whose lowercase form ends with ".c" and for an alias of the
\* vendor-advisory shape, and false for every other string.
C6_FilterAsSpecified ==
    pc = "return" => (ret <=> Blank(arg) \/ LowerEndsDotC(arg) \/ VendorShape(arg))

\* the recognised shapes of normalize_cve, after the CVE prefix and all white
\* space are removed: 4 digits, an optional dash or underscore, 4 to 7 digits
Recognised(raw) ==
    LET s == RemoveSpace(StripCvePrefix(strip(raw)))
    IN  \E k \in {0, 1} :
           /\ Len(s) - 4 - k \in 4..7
           /\ \A i \in 1..4 : s[i] \in Digits
           /\ k = 1 => s[5] \in {"-", "_"}
           /\ \A i \in (5 + k)..Len(s) : s[i] \in Digits

IsSuffix(x, y) == Len(x) <= Len(y) /\ x = SubSeq(y, Len(y) - Len(x) + 1, Len(y))

\* C7: for a 4-digit year Y and a sequence N of 4 to 7 digits the spellings
\* Y-N, YN and CVE-Y-N all normalise to CVE-Y-N; an input of no recognised
\* shape comes back uppercased: without lowercase letters, and as the end of
\* the uppercased input less its white space.
C7_SpellingsNormalise ==
    pc = "return" =>
        /\ Len(arg.n) \in 4..7 /\ arg.raw \in Spellings(arg.y, arg.n)
              => ret = CVE \o <<"-">> \o arg.y \o <<"-">> \o arg.n
        /\ ~ Recognised(arg.raw)
              => /\ \A i \in DOMAIN ret : ret[i] \notin LowerSet
                 /\ IsSuffix(ret, upper(RemoveSpace(arg.raw)))

\* the joined spelling YN with a 7-digit N has been normalised
C7_Witness ==
    /\ pc = "return"
    /\ Len(arg.n) = 7
    /\ arg.raw = arg.y \o arg.n
    /\ ret = CVE \o <<"-">> \o arg.y \o <<"-">> \o arg.n

(***************************************************************************)
(* Properties of a whole run.                                              *)
(***************************************************************************)
\* the lists akas and cves and the rows of every module text
ModuleAkas == [t \in Modules |-> akas_of(t)]

ModuleCves == [t \in Modules |-> cves_of(t)]

ModuleRows == [t \in Modules |-> extract_from_text(t)]

\* the indices of the files read so far whose path a triple of results carries
FileOf(r) == {i \in DOMAIN tree : PathOf(i) = r[1]}

\* every text of at most MaxLines lines without a surviving alias gives no pair
NoSurvivorNoPairs == \A t \in Texts : Kept(akas_of(t)) = {} => extract_from_text(t) = <<>>

\* C1: a file without a surviving alias (no candidate, or every candidate
\* filtered) yields an empty pair list and no triple of results carries its
\* path, however many CVE tokens it holds.
C1_NoAliasNoRows ==
    /\ NoSurvivorNoPairs
    /\ \A i \in DOMAIN tree :
          tree[i].ok /\ Kept(ModuleAkas[tree[i].text]) = {} =>
              /\ ModuleRows[tree[i].text] = <<>>
              /\ \A k \in DOMAIN results : results[k][1] # PathOf(i)

\* the run is over, a file with two CVE tokens and only filtered candidates
\* was scanned, and the rows all come from other files
C1_Witness ==
    /\ pc = "exit"
    /\ results # <<>>
    /\ \E i \in DOMAIN tree :
          /\ tree[i].ok
          /\ ModuleAkas[tree[i].text] # <<>>
          /\ Kept(ModuleAkas[tree[i].text]) = {}
          /\ Len(ModuleCves[tree[i].text]) >= 2

\* C2: the triples of one file carry one alias, which is not empty and is the
\* first candidate of the file's merged list that is not filtered.
C2_OneAliasPerFile ==
    /\ \A k, l \in DOMAIN results : results[k][1] = results[l][1] => results[k][3] = results[l][3]
    /\ \A k \in DOMAIN results :
          /\ results[k][3] # <<>>
          /\ FileOf(results[k]) # {}
          /\ \A i \in FileOf(results[k]) :
                /\ tree[i].ok
                /\ results[k][3] = FirstKept(ModuleAkas[tree[i].text])

\* two triples of one file that declares several aliases of which two survive
C2_Witness ==
    \E k, l \in DOMAIN results :
        /\ k # l
        /\ results[k][1] = results[l][1]
        /\ results[k][2] # results[l][2]
        /\ \A i \in FileOf(results[k]) : Cardinality(Kept(ModuleAkas[tree[i].text])) >= 2

\* the indices of the triples whose CVE no earlier triple has
FirstOfCve(rs) == {i \in DOMAIN rs : \A j \in 1..(i - 1) : rs[j][2] # rs[i][2]}

\* C3: in CSV mode with results the output is the header row and then, without
\* --dedup, one row per triple in collection order, and with --dedup the rows
\* of the triples whose CVE no earlier triple has: no two rows share a CVE and
\* every CVE of the results has the row of its first triple.
C3_CsvRows ==
    pc = "exit" /\ root = "dir" /\ ~ ts /\ results # <<>> =>
        LET rows == IF dedup THEN RestrictTo(results, FirstOfCve(results)) ELSE results
        IN  /\ stdout = <<writerow(csv_header)>> \o [i \in DOMAIN rows |-> writerow(rows[i])]
            /\ dedup =>
                  /\ \A i, j \in 2..Len(stdout) :
                        stdout[i].row[2] = stdout[j].row[2] => i = j
                  /\ \A k \in FirstOfCve(results) :
                        \E i \in 2..Len(stdout) : stdout[i].row = results[k]

\* a --dedup run whose results hold one CVE twice, with different aliases
C3_Witness ==
    /\ pc = "exit"
    /\ ~ ts
    /\ dedup
    /\ \E i, j \in DOMAIN results :
          /\ i < j
          /\ results[i][2] = results[j][2]
          /\ results[i][3] # results[j][3]
    /\ Len(stdout) > 2
    /\ Len(stdout) < Len(results) + 1

\* every single quote preceded by a backslash
Escaped(a) == Flatten([i \in DOMAIN a |-> IF a[i] = "'" THEN <<"\\", "'">> ELSE <<a[i]>>])

\* the text of the map whose entries are those of the triples at the indices in I
MapText(rs, I) ==
    LET firsts == RestrictTo(rs, I)
    IN  join_lines(<<ts_comment, ts_open>>
                   \o [i \in DOMAIN firsts |-> ts_entry(firsts[i][2], Escaped(firsts[i][3]))]
                   \o <<ts_close>>)

\* C4 as stated: in mapping mode with results the output is, whatever --dedup
\* says, the map alone (no CSV row), with one entry line for every distinct CVE
\* value of the triples, in order of first occurrence, holding the escaped alias
\* of the first triple with that CVE.
C4_EntryPerCve ==
    pc = "exit" /\ root = "dir" /\ ts /\ results # <<>> =>
        stdout = <<print(MapText(results, FirstOfCve(results)))>>

\* C4 amended: in mapping mode with results the output is, whatever --dedup
\* says, the map alone (no CSV row), with one entry line for every distinct
\* non-empty CVE value of the triples, in order of first occurrence, holding the
\* escaped alias of the first triple with that CVE; a triple whose CVE is the
\* empty string has no entry.
C4_EntryPerNonEmptyCve ==
    pc = "exit" /\ root = "dir" /\ ts /\ results # <<>> =>
        /\ stdout = <<print(MapText(results, {i \in FirstOfCve(results) : results[i][2] # <<>>}))>>
        /\ \A i \in DOMAIN stdout : stdout[i].op # "writerow"

\* a mapping run whose results hold an empty CVE, an alias with a quote and
\* one CVE twice with different aliases
C4_Witness ==
    /\ pc = "exit"
    /\ ts
    /\ stdout # <<>>
    /\ \E i \in DOMAIN results : results[i][2] = <<>>
    /\ \E i \in DOMAIN results : "'" \in Elements(results[i][3])
    /\ \E i, j \in DOMAIN results :
          /\ i < j
          /\ results[i][2] = results[j][2]
          /\ results[i][2] # <<>>
          /\ results[i][3] # results[j][3]

\* C5: something is written to standard output only for a root that is a
\* directory and a scan with results; a root that is no directory ends the run
\* with status 2 before any file is scanned; a scan without results ends it
\* with status 0 and no output; every other run ends with status 0.
C5_OutputOnlyWithResults ==
    /\ stdout # <<>> => root = "dir" /\ results # <<>>
    /\ pc = "exit" /\ root # "dir" => status = 2 /\ tree = <<>> /\ stdout = <<>>
    /\ pc = "exit" /\ root = "dir" => status = 0
    /\ pc = "exit" /\ root = "dir" /\ results = <<>> => stdout = <<>>
    /\ pc # "exit" => stdout = <<>>

\* a run over files with CVE tokens that collected nothing and has ended
C5_Witness ==
    /\ pc = "exit"
    /\ root = "dir"
    /\ status = 0
    /\ stdout = <<>>
    /\ \E i \in DOMAIN tree : tree[i].ok /\ ModuleCves[tree[i].text] # <<>>

\* the results of a tree that holds only the files that could be read
ReadableResults ==
    LET I == {i \in DOMAIN tree : tree[i].ok}
        files == RestrictTo([i \in DOMAIN tree |-> [path |-> PathOf(i), text |-> tree[i].text]], I)
        rows(f) == ModuleRows[f.text]
    IN  Flatten([k \in DOMAIN files |->
            [n \in DOMAIN rows(files[k]) |->
                <<files[k].path, rows(files[k])[n][1], rows(files[k])[n][2]>>]])

\* C8: a file whose read fails contributes no triple and no error; the triples
\* of the other files and their order are those of the tree without it, and
\* the run ends with status 0.
C8_ReadFailureSkipped ==
    /\ root = "dir" => results = ReadableResults
    /\ \A i \in DOMAIN tree : ~ tree[i].ok => \A k \in DOMAIN results : results[k][1] # PathOf(i)
    /\ root = "dir" => stderr = <<>>
    /\ pc = "exit" /\ root = "dir" => status = 0

\* the run has ended after a failed read between two files that gave triples
C8_Witness ==
    /\ pc = "exit"
    /\ status = 0
    /\ \E i, j, k \in DOMAIN tree :
          /\ i < j
          /\ j < k
          /\ ~ tree[j].ok
          /\ \E a, b \in DOMAIN results :
                a < b /\ results[a][1] = PathOf(i) /\ results[b][1] = PathOf(k)

=============================================================================
